---------------------------- MODULE Spec2Model ----------------------------
(***************************************************************************)
(* A model of the play parser of src/play_formatter.py (class              *)
(* PlayFormatter; src/streamlit_app.py carries the same class): the        *)
(* character registry built by identify_character_names, the predicates    *)
(* is_stage_direction and is_action_line, and the line walk of parse_play, *)
(* one action per loop iteration and per classification rule; with them    *)
(* extract_metadata and the paragraph texts create_formatted_docx writes.  *)
(*                                                                         *)
(* A Python str is a sequence of one-character strings, so that strip,     *)
(* upper, split, find, the substring test and the regular expressions are  *)
(* computed character by character as the code computes them.  Indices     *)
(* named as in the source (i, start_idx, paren_end) are 0-based as in      *)
(* Python; lines[i] of the source is lines[i + 1] here.                    *)
(***************************************************************************)
EXTENDS Integers, Sequences, FiniteSets, TLC

VARIABLES
    character_names,  \* self.character_names: the registry, kept on the instance
    text,             \* the argument of the current parse_play call
    lines,            \* parse_play's local: text.split('\n')
    elements,         \* parse_play's local: the elements emitted so far
    start_idx,        \* parse_play's local: where the walk starts
    i,                \* parse_play's local: the index of the line being looked at
    pc,               \* where the call stands: idle, outer, speech, returned, written
    dropped,          \* history: the indices of the lines the outer loop dropped
    calls,            \* history: the number of parse_play calls made on the instance
    metadata,         \* main's local: <<the dict extract_metadata returned>>, <<>> before the call
    rendered          \* the paragraph texts create_formatted_docx wrote, one for each element

vars == <<character_names, text, lines, elements, start_idx, i, pc, dropped, calls, metadata, rendered>>

---------------------------------------------------------------------------
(* Characters and the str methods the parser uses.                         *)

UpperSeq ==
    <<"A", "B", "C", "D", "E", "F", "G", "H", "I", "J", "K", "L", "M",
      "N", "O", "P", "Q", "R", "S", "T", "U", "V", "W", "X", "Y", "Z">>
LowerSeq ==
    <<"a", "b", "c", "d", "e", "f", "g", "h", "i", "j", "k", "l", "m",
      "n", "o", "p", "q", "r", "s", "t", "u", "v", "w", "x", "y", "z">>
DigitSeq ==
    <<"0", "1", "2", "3", "4", "5", "6", "7", "8", "9">>

\* PlayFormatter.STAGE_DIRECTION_WORDS: the words that open a stage direction.
STAGE_DIRECTION_WORDS ==
    { <<"s", "o", "f", "t", "l", "y">>,
      <<"l", "o", "u", "d", "l", "y">>,
      <<"y", "e", "l", "l", "i", "n", "g">>,
      <<"y", "e", "l", "l", "s">>,
      <<"w", "h", "i", "s", "p", "e", "r", "s">>,
      <<"s", "h", "o", "u", "t", "i", "n", "g">>,
      <<"s", "h", "o", "u", "t", "s">>,
      <<"l", "a", "u", "g", "h", "i", "n", "g">>,
      <<"l", "a", "u", "g", "h", "s">>,
      <<"s", "m", "i", "l", "i", "n", "g">>,
      <<"s", "m", "i", "l", "e", "s">>,
      <<"c", "r", "y", "i", "n", "g">>,
      <<"c", "r", "i", "e", "s">>,
      <<"p", "a", "u", "s", "e">>,
      <<"b", "e", "a", "t">>,
      <<"p", "a", "u", "s", "e", "s">>,
      <<"e", "n", "t", "e", "r", "s">>,
      <<"e", "x", "i", "t", "s">>,
      <<"s", "i", "t", "s">>,
      <<"s", "t", "a", "n", "d", "s">>,
      <<"w", "a", "l", "k", "s">>,
      <<"l", "o", "o", "k", "s">>,
      <<"r", "u", "n", "s">>,
      <<"t", "u", "r", "n", "i", "n", "g">>,
      <<"l", "o", "o", "k", "i", "n", "g">>,
      <<"w", "a", "l", "k", "i", "n", "g">>,
      <<"s", "i", "t", "t", "i", "n", "g">>,
      <<"s", "t", "a", "n", "d", "i", "n", "g">>,
      <<"p", "o", "i", "n", "t", "i", "n", "g">>,
      <<"g", "e", "s", "t", "u", "r", "i", "n", "g">>,
      <<"w", "a", "v", "i", "n", "g">>,
      <<"n", "o", "d", "d", "i", "n", "g">>,
      <<"s", "h", "a", "k", "i", "n", "g">>,
      <<"g", "r", "a", "b", "b", "i", "n", "g">>,
      <<"r", "e", "a", "c", "h", "i", "n", "g">>,
      <<"p", "u", "l", "l", "i", "n", "g">>,
      <<"p", "u", "s", "h", "i", "n", "g">>,
      <<"s", "q", "u", "i", "n", "t", "s">>,
      <<"b", "i", "t", "i", "n", "g">>,
      <<"c", "h", "e", "c", "k", "i", "n", "g">>,
      <<"i", "m", "i", "t", "a", "t", "i", "n", "g">>,
      <<"p", "a", "t", "t", "i", "n", "g">>,
      <<"o", "p", "e", "n", "s">>,
      <<"c", "l", "o", "s", "e", "s">>,
      <<"d", "r", "o", "p", "s">>,
      <<"t", "a", "k", "e", "s">>,
      <<"p", "u", "t", "s">>,
      <<"g", "e", "t", "s">>,
      <<"s", "e", "t", "s">>,
      <<"r", "u", "s", "h", "e", "s">>,
      <<"f", "r", "e", "e", "z", "e", "s">>,
      <<"i", "n", "t", "e", "r", "r", "u", "p", "t", "i", "n", "g">> }

\* The scene and action words identify_character_names filters out.
Stoplist ==
    { <<"L", "I", "G", "H", "T", "S", " ", "U", "P">>,
      <<"B", "L", "A", "C", "K", "O", "U", "T">>,
      <<"E", "N", "D">>,
      <<"T", "H", "E">>,
      <<"A", "N", "D">>,
      <<"O", "R">>,
      <<"L", "I", "G", "H", "T", "S">>,
      <<"C", "U", "R", "T", "A", "I", "N">>,
      <<"S", "C", "E", "N", "E">>,
      <<"A", "C", "T">>,
      <<"F", "A", "D", "E">> }

\* The alternatives of is_stage_direction's \b(...)\b search.
DirectionPhrases ==
    { <<"e", "n", "t", "e", "r", "s">>,
      <<"e", "x", "i", "t", "s">>,
      <<"s", "i", "t", "s", " ", "d", "o", "w", "n">>,
      <<"s", "t", "a", "n", "d", "s", " ", "u", "p">>,
      <<"w", "a", "l", "k", "s", " ", "t", "o">>,
      <<"l", "o", "o", "k", "s", " ", "a", "t">>,
      <<"t", "u", "r", "n", "s", " ", "t", "o">> }

\* The alternatives of is_action_line's \b(...)\b search: the search ignores case, so
\* it is made on the lowered line.
ActionVerbs ==
    { <<"l", "o", "o", "k", "s">>,
      <<"s", "i", "t", "s">>,
      <<"s", "t", "a", "n", "d", "s">>,
      <<"w", "a", "l", "k", "s">>,
      <<"e", "n", "t", "e", "r", "s">>,
      <<"e", "x", "i", "t", "s">>,
      <<"t", "u", "r", "n", "s">>,
      <<"g", "r", "a", "b", "s">>,
      <<"t", "a", "k", "e", "s">>,
      <<"p", "u", "t", "s">> }

\* The alternatives of the outer loop's pattern ^(ACT|SCENE|INT\.|EXT\.).
HeadingPrefixes ==
    { <<"A", "C", "T">>,
      <<"S", "C", "E", "N", "E">>,
      <<"I", "N", "T", ".">>,
      <<"E", "X", "T", ".">> }

\* The alternatives of ^(ACT|SCENE): the start scan and the speech loop.
StartPrefixes ==
    { <<"A", "C", "T">>,
      <<"S", "C", "E", "N", "E">> }

\* The spellings the standalone-beat test accepts.
BeatForms ==
    { <<"B", "e", "a", "t", ".">>,
      <<"B", "e", "a", "t">>,
      <<"b", "e", "a", "t", ".">>,
      <<"b", "e", "a", "t">> }


UpperLetters == {UpperSeq[k] : k \in 1..Len(UpperSeq)}
LowerLetters == {LowerSeq[k] : k \in 1..Len(LowerSeq)}
Digits == {DigitSeq[k] : k \in 1..Len(DigitSeq)}

\* The characters str.isspace() holds of, which strip(), split() and the
\* pattern class \s all use (the ASCII ones).
Whitespace == {" ", "\t", "\r", "\n", "\f"}

\* The characters of the pattern class \w, which decides where \b matches.
WordChars == UpperLetters \cup LowerLetters \cup Digits \cup {"_"}

\* The characters the class [A-Z\s\-\'] of the name pattern accepts.
NameTailChars == UpperLetters \cup Whitespace \cup {"-", "'"}

SetMin(S) == CHOOSE x \in S : \A y \in S : x <= y
SetMax(S) == CHOOSE x \in S : \A y \in S : x >= y

\* c.upper() and c.lower() of one character.
UpperChar(c) ==
    IF c \in LowerLetters
    THEN UpperSeq[CHOOSE k \in 1..Len(LowerSeq) : LowerSeq[k] = c]
    ELSE c
LowerChar(c) ==
    IF c \in UpperLetters
    THEN LowerSeq[CHOOSE k \in 1..Len(UpperSeq) : UpperSeq[k] = c]
    ELSE c

\* s.upper(), s.lower()
Upper(s) == [k \in 1..Len(s) |-> UpperChar(s[k])]
Lower(s) == [k \in 1..Len(s) |-> LowerChar(s[k])]

\* s.isupper(): some cased character, and no lowercase one.
IsUpper(s) ==
    /\ \E k \in 1..Len(s) : s[k] \in UpperLetters
    /\ \A k \in 1..Len(s) : s[k] \notin LowerLetters

\* s.strip(chars): s without its leading and trailing characters of chars.
StripChars(s, chars) ==
    LET keep == {k \in 1..Len(s) : s[k] \notin chars}
    IN  IF keep = {} THEN <<>> ELSE SubSeq(s, SetMin(keep), SetMax(keep))

\* s.strip()
Strip(s) == StripChars(s, Whitespace)

\* The positions where a word of s.split() starts.
WordStarts(s) ==
    {k \in 1..Len(s) : s[k] \notin Whitespace /\ (k = 1 \/ s[k - 1] \in Whitespace)}

\* len(s.split())
WordCount(s) == Cardinality(WordStarts(s))

\* s.split()[0]; the caller guards the empty string, for which the code
\* takes '' instead.
FirstWord(s) ==
    LET b == SetMin(WordStarts(s))
        ends == {k \in b..Len(s) : k = Len(s) \/ s[k + 1] \in Whitespace}
    IN  SubSeq(s, b, SetMin(ends))

\* s.startswith(p), s.endswith(p)
StartsWith(s, p) == Len(s) >= Len(p) /\ SubSeq(s, 1, Len(p)) = p
EndsWith(s, p) == Len(s) >= Len(p) /\ SubSeq(s, Len(s) - Len(p) + 1, Len(s)) = p

\* The 0-based offsets at which sub occurs in s.
Occurrences(s, sub) ==
    {p \in 0..(Len(s) - Len(sub)) : SubSeq(s, p + 1, p + Len(sub)) = sub}

\* sub in s
Contains(s, sub) == Occurrences(s, sub) # {}

\* s.find(sub): the first offset, or -1.
Find(s, sub) == IF Contains(s, sub) THEN SetMin(Occurrences(s, sub)) ELSE -1

\* s[:n]
Prefix(s, n) == SubSeq(s, 1, IF n < Len(s) THEN n ELSE Len(s))

\* re.search(r'\b(w1|w2|...)\b', s) for words that begin and end with a
\* word character: an occurrence with no word character on either side.
SearchWholeWord(s, words) ==
    \E w \in words : \E p \in Occurrences(s, w) :
        /\ p = 0 \/ s[p] \notin WordChars
        /\ p + Len(w) = Len(s) \/ s[p + Len(w) + 1] \notin WordChars

\* re.match(r'^(p1|p2|...)', s, re.IGNORECASE) for upper-case alternatives.
MatchPrefixIgnoreCase(s, prefixes) ==
    \E p \in prefixes : StartsWith(Upper(s), p)

\* text.split('\n'): never empty; the empty text gives one empty line.
RECURSIVE SplitLines(_)
SplitLines(t) ==
    IF ~Contains(t, <<"\n">>) THEN <<t>>
    ELSE LET p == Find(t, <<"\n">>)
         IN  <<SubSeq(t, 1, p)>> \o SplitLines(SubSeq(t, p + 2, Len(t)))

\* '\n'.join(ls)
RECURSIVE JoinLines(_)
JoinLines(ls) ==
    IF Len(ls) = 0 THEN <<>>
    ELSE IF Len(ls) = 1 THEN ls[1]
    ELSE ls[1] \o <<"\n">> \o JoinLines(Tail(ls))

---------------------------------------------------------------------------
(* The registry and the two line predicates.                               *)

\* The numbers of the source's tests.
MaxNameTail == 30      \* {1,30}: the characters a name has after its first
MaxNameWords == 4      \* len(line.split()) <= 4
LongLineWords == 10    \* len(text.split()) > 10
ShortLineLen == 5      \* len(line) > 5
TokenWindow == 15      \* next_line[:15]

\* re.match(r'^[A-Z][A-Z\s\-\']{1,30}$', line).  A line of split('\n') holds
\* no newline, so $ matches at its end only.
MatchesNamePattern(line) ==
    /\ Len(line) >= 2
    /\ Len(line) <= 1 + MaxNameTail
    /\ line[1] \in UpperLetters
    /\ \A k \in 2..Len(line) : line[k] \in NameTailChars

\* A name test without the word count.
IsCharacterNameAnyWords(line) ==
    /\ MatchesNamePattern(line)
    /\ line \notin Stoplist

\* A name test without the stoplist.
IsCharacterNameNoStoplist(line) ==
    /\ MatchesNamePattern(line)
    /\ WordCount(line) <= MaxNameWords

\* The test identify_character_names makes of one stripped line.
IsCharacterName(line) ==
    /\ MatchesNamePattern(line)
    /\ line \notin Stoplist
    /\ WordCount(line) <= MaxNameWords

\* A registry that drops a name it meets again instead of keeping it.
IdentifyCharacterNamesToggle(names, t) ==
    LET ls == SplitLines(t)
        found == {Strip(ls[k]) : k \in {j \in 1..Len(ls) : IsCharacterName(Strip(ls[j]))}}
    IN  (names \ found) \cup (found \ names)

\* identify_character_names(text) on an instance whose registry is names:
\* the registry it leaves.  It adds to the set and never clears it.
IdentifyCharacterNames(names, t) ==
    LET ls == SplitLines(t)
    IN  names \cup {Strip(ls[k]) : k \in {j \in 1..Len(ls) : IsCharacterName(Strip(ls[j]))}}

\* is_stage_direction(text)
IsStageDirection(t) ==
    LET text_lower == Strip(Lower(t))
        first_word == IF text_lower # <<>> THEN FirstWord(text_lower) ELSE <<>>
    IN  \/ StartsWith(t, <<"(">>) /\ EndsWith(t, <<")">>)
        \/ first_word \in STAGE_DIRECTION_WORDS
        \/ SearchWholeWord(text_lower, DirectionPhrases)

\* is_action_line(text) with the registry names
IsActionLine(t, names) ==
    \/ /\ \E char \in names : Contains(t, char)
       /\ SearchWholeWord(Lower(t), ActionVerbs)
    \/ WordCount(t) > LongLineWords /\ ~IsUpper(t)

---------------------------------------------------------------------------
(* parse_play: the start scan and the classification of a line.            *)

LIGHTS_UP == <<"L", "I", "G", "H", "T", "S", " ", "U", "P">>
BeatText == <<"B", "e", "a", "t", ".">>

\* A cue that tests the registry for the line's spelling instead of asking
\* whether the line is in it.
IsCueByPattern(line, names) == MatchesNamePattern(line)

\* line in self.character_names: the stripped line is a cue.
IsCue(line, names) == line \in names

\* A start scan's test that looks for a cue only.
IsStartTriggerCueOnly(line, names) == IsCue(Strip(line), names)

\* The start scan's test of one line.
IsStartTrigger(line, names) ==
    IsCue(Strip(line), names) \/ MatchPrefixIgnoreCase(Strip(line), StartPrefixes)

\* A start scan that steps one line forward of the trigger line instead of
\* one line back.
StartIdxAfterTrigger(ls, names) ==
    LET hits == {k \in 0..(Len(ls) - 1) : IsStartTrigger(ls[k + 1], names)}
    IN  IF hits = {} THEN 0 ELSE SetMin(hits) + 1

\* A start scan that is left at the end of the text when no line triggers.
StartIdxNoneAtEnd(ls, names) ==
    LET hits == {k \in 0..(Len(ls) - 1) : IsStartTrigger(ls[k + 1], names)}
    IN  IF hits = {} THEN Len(ls)
        ELSE IF SetMin(hits) - 1 > 0 THEN SetMin(hits) - 1 ELSE 0

\* start_idx: one line before the first trigger line, 0 when there is none.
StartIdx(ls, names) ==
    LET hits == {k \in 0..(Len(ls) - 1) : IsStartTrigger(ls[k + 1], names)}
    IN  IF hits = {} THEN 0
        ELSE IF SetMin(hits) - 1 > 0 THEN SetMin(hits) - 1 ELSE 0

\* An append that puts the element at the head of the list.
EmitFirst(els, e, idx) == <<[type |-> e.type, text |-> e.text, line |-> idx]>> \o els

\* elements.append(e); line records the index of the input line the element
\* was made from.
Emit(els, e, idx) == Append(els, [type |-> e.type, text |-> e.text, line |-> idx])

\* The list parse_play returns: the elements without the recorded index.
Visible(els) == [k \in 1..Len(els) |-> [type |-> els[k].type, text |-> els[k].text]]

\* An outer loop that looks for a registry member before anything else.
OuterRuleCueFirst(line, names) ==
    IF line = <<>> THEN "blank"
    ELSE IF IsCue(line, names) THEN "character"
    ELSE IF MatchPrefixIgnoreCase(line, HeadingPrefixes) THEN "scene_heading"
    ELSE IF Contains(Upper(line), LIGHTS_UP) THEN "lights_up"
    ELSE IF Strip(line) \in BeatForms THEN "beat"
    ELSE IF IsActionLine(line, names) THEN "action_line"
    ELSE IF ~IsUpper(line) /\ Len(line) > ShortLineLen THEN "default_action"
    ELSE "drop"

\* The branch the outer loop takes on the stripped line, in source order.
OuterRule(line, names) ==
    IF line = <<>> THEN "blank"
    ELSE IF MatchPrefixIgnoreCase(line, HeadingPrefixes) THEN "scene_heading"
    ELSE IF Contains(Upper(line), LIGHTS_UP) THEN "lights_up"
    ELSE IF Strip(line) \in BeatForms THEN "beat"
    ELSE IF IsCue(line, names) THEN "character"
    ELSE IF IsActionLine(line, names) THEN "action_line"
    ELSE IF ~IsUpper(line) /\ Len(line) > ShortLineLen THEN "default_action"
    ELSE "drop"

\* A blank-line test that lets only a cue end the speech.
BlankEndsSpeechOnCueOnly(ls, idx, names) ==
    /\ idx < Len(ls)
    /\ Strip(ls[idx + 1]) # <<>>
    /\ IsCue(Strip(ls[idx + 1]), names)

\* After a blank line inside a speech, with idx the index after it: whether
\* the speech loop breaks.
BlankEndsSpeech(ls, idx, names) ==
    /\ idx < Len(ls)
    /\ Strip(ls[idx + 1]) # <<>>
    /\ \/ IsCue(Strip(ls[idx + 1]), names)
       \/ IsActionLine(Strip(ls[idx + 1]), names)

\* A speech loop in which is_stage_direction alone decides, whatever the
\* first 15 characters hold.
SpeechRuleNoWindow(ls, idx, names) ==
    LET next_line == Strip(ls[idx + 1])
        paren_end == Find(next_line, <<")">>)
    IN  IF next_line = <<>>
        THEN IF BlankEndsSpeech(ls, idx + 1, names) THEN "blank_break" ELSE "blank_continue"
        ELSE IF IsCue(next_line, names) THEN "cue_break"
        ELSE IF MatchPrefixIgnoreCase(next_line, StartPrefixes) THEN "heading_break"
        ELSE IF StartsWith(next_line, <<"(">>) /\ Contains(next_line, <<")">>)
        THEN IF paren_end < Len(next_line) - 1 THEN "paren_dialogue" ELSE "paren_direction"
        ELSE IF IsStageDirection(next_line) THEN "word_direction"
        ELSE "dialogue"

\* The branch the speech loop takes on line idx, in source order.
SpeechRule(ls, idx, names) ==
    LET next_line == Strip(ls[idx + 1])
        paren_end == Find(next_line, <<")">>)
    IN  IF next_line = <<>>
        THEN IF BlankEndsSpeech(ls, idx + 1, names) THEN "blank_break" ELSE "blank_continue"
        ELSE IF IsCue(next_line, names) THEN "cue_break"
        ELSE IF MatchPrefixIgnoreCase(next_line, StartPrefixes) THEN "heading_break"
        ELSE IF StartsWith(next_line, <<"(">>) /\ Contains(next_line, <<")">>)
        THEN IF paren_end < Len(next_line) - 1 THEN "paren_dialogue" ELSE "paren_direction"
        ELSE IF IsStageDirection(next_line) /\ ~Contains(Prefix(next_line, TokenWindow), <<" ">>)
        THEN "word_direction"
        ELSE "dialogue"

\* Outer elements in which a line wholly wrapped in parentheses becomes a
\* stage direction without its parentheses.
OuterElementParenDirection(r, line) ==
    CASE r = "scene_heading" -> [type |-> "scene_heading", text |-> Upper(line)]
      [] r = "beat" -> [type |-> "action", text |-> BeatText]
      [] r = "character" -> [type |-> "character", text |-> line]
      [] OTHER ->
            IF StartsWith(line, <<"(">>) /\ EndsWith(line, <<")">>)
            THEN [type |-> "stage_direction", text |-> StripChars(line, {"(", ")"})]
            ELSE [type |-> "action", text |-> line]

\* The element the outer loop appends on the branch r: a heading in upper
\* case, the normalised beat, the cue, or (LIGHTS UP, action line, default)
\* an action with the line as it is.
OuterElement(r, line) ==
    CASE r = "scene_heading" -> [type |-> "scene_heading", text |-> Upper(line)]
      [] r = "beat" -> [type |-> "action", text |-> BeatText]
      [] r = "character" -> [type |-> "character", text |-> line]
      [] OTHER -> [type |-> "action", text |-> line]

\* The element the speech loop appends on the branch r.
SpeechElement(r, next_line) ==
    CASE r = "paren_direction" ->
            [type |-> "stage_direction", text |-> StripChars(next_line, {"(", ")"})]
      [] r = "word_direction" -> [type |-> "stage_direction", text |-> next_line]
      [] OTHER -> [type |-> "dialogue", text |-> next_line]

\* i += 1
Advance(s) == [s EXCEPT !.i = @ + 1]

\* A break that also steps past the line that ends the speech.
BreakSpeechPastLine(s) == [s EXCEPT !.pc = "outer", !.i = @ + 1]

\* break: the speech loop is left; i stays on the line that ended it.
BreakSpeech(s) == [s EXCEPT !.pc = "outer"]

\* An outer loop that does not step past a line it drops.
OuterStepDropStays(ls, names, s) ==
    LET line == Strip(ls[s.i + 1])
        r == OuterRule(line, names)
        emitted == [s EXCEPT !.elements = Emit(@, OuterElement(r, line), s.i)]
    IN  CASE r = "blank" -> Advance(s)
          [] r = "drop" -> [s EXCEPT !.dropped = @ \cup {s.i}]
          [] r = "character" -> Advance([emitted EXCEPT !.pc = "speech"])
          [] OTHER -> Advance(emitted)

\* One iteration of the outer while loop on the walk state s.
OuterStep(ls, names, s) ==
    LET line == Strip(ls[s.i + 1])
        r == OuterRule(line, names)
        emitted == [s EXCEPT !.elements = Emit(@, OuterElement(r, line), s.i)]
    IN  CASE r = "blank" -> Advance(s)
          [] r = "drop" -> Advance([s EXCEPT !.dropped = @ \cup {s.i}])
          [] r = "character" -> Advance([emitted EXCEPT !.pc = "speech"])
          [] OTHER -> Advance(emitted)

\* A speech loop that takes a heading into the speech and goes on.
SpeechStepHeadingInside(ls, names, s) ==
    LET next_line == Strip(ls[s.i + 1])
        r == SpeechRule(ls, s.i, names)
    IN  CASE r = "blank_break" -> BreakSpeech(Advance(s))
          [] r = "blank_continue" -> Advance(s)
          [] r = "cue_break" -> BreakSpeech(s)
          [] r = "heading_break" ->
                Advance([s EXCEPT !.elements =
                            Emit(@, OuterElement("scene_heading", next_line), s.i)])
          [] OTHER ->
                Advance([s EXCEPT !.elements = Emit(@, SpeechElement(r, next_line), s.i)])

\* A speech loop whose look past a blank line takes the line it sees as
\* dialogue and then meets it again.
SpeechStepPeekEmits(ls, names, s) ==
    LET next_line == Strip(ls[s.i + 1])
        r == SpeechRule(ls, s.i, names)
    IN  CASE r = "blank_break" -> BreakSpeech(Advance(s))
          [] r = "blank_continue" ->
                IF s.i + 1 < Len(ls) /\ Strip(ls[s.i + 2]) # <<>>
                THEN Advance([s EXCEPT !.elements =
                        Emit(@, SpeechElement("dialogue", Strip(ls[s.i + 2])), s.i + 1)])
                ELSE Advance(s)
          [] r \in {"cue_break", "heading_break"} -> BreakSpeech(s)
          [] OTHER ->
                Advance([s EXCEPT !.elements = Emit(@, SpeechElement(r, next_line), s.i)])

\* One iteration of the speech loop on the walk state s.
SpeechStep(ls, names, s) ==
    LET next_line == Strip(ls[s.i + 1])
        r == SpeechRule(ls, s.i, names)
    IN  CASE r = "blank_break" -> BreakSpeech(Advance(s))
          [] r = "blank_continue" -> Advance(s)
          [] r \in {"cue_break", "heading_break"} -> BreakSpeech(s)
          [] OTHER ->
                Advance([s EXCEPT !.elements = Emit(@, SpeechElement(r, next_line), s.i)])

\* One step of the walk: a loop test and, when it passes, the iteration.
WalkStep(ls, names, s) ==
    IF s.pc = "outer"
    THEN IF s.i < Len(ls) THEN OuterStep(ls, names, s) ELSE [s EXCEPT !.pc = "returned"]
    ELSE IF s.i < Len(ls) THEN SpeechStep(ls, names, s) ELSE [s EXCEPT !.pc = "outer"]

\* The walk from s to the return.
RECURSIVE Walk(_, _, _)
Walk(ls, names, s) ==
    IF s.pc = "returned" THEN s ELSE Walk(ls, names, WalkStep(ls, names, s))

\* parse_play(text) as a function of the registry the instance holds when it
\* is called: the list it returns.
ParsePlayResult(names0, t) ==
    LET ls == SplitLines(t)
        names == IdentifyCharacterNames(names0, t)
        s0 == [i |-> StartIdx(ls, names), elements |-> <<>>, dropped |-> {}, pc |-> "outer"]
    IN  Visible(Walk(ls, names, s0).elements)

---------------------------------------------------------------------------
(* create_formatted_docx: the text of the paragraph written for an         *)
(* element.  The elements reach the script as a JSON literal, which gives  *)
(* back the strings as they were.                                          *)

\* case 'stage_direction': dirText, wrapped in parentheses unless the text
\* starts with one.
DirText(t) ==
    IF ~StartsWith(t, <<"(">>) THEN <<"(">> \o t \o <<")">> ELSE t

\* The text of the paragraph of element e: dirText for a stage direction;
\* the runs of the other paragraphs put together are element.text.
ParagraphText(e) ==
    IF e.type = "stage_direction" THEN DirText(e.text) ELSE e.text

\* createPlayContent: one paragraph for each element, in order.
CreatePlayContent(els) == [k \in 1..Len(els) |-> ParagraphText(els[k])]

---------------------------------------------------------------------------
(* extract_metadata.                                                       *)

AuthorWindowEnd == 6     \* lines[1:6]
EmailWindowEnd == 50     \* lines[:50]
SubtitleWindowEnd == 5   \* lines[1:5]

DefaultDraft == <<"D", "R", "A", "F", "T", " ", "O", "N", "E">>
DefaultCopyright == <<"©">> \o <<" ", "2", "0", "2", "5">>

\* The characters of the class [\w\.-] of the email pattern.
EmailChars == WordChars \cup {".", "-"}

SubtitleWords == { <<"s", "c", "e", "n", "e">>, <<"a", "c", "t">>, <<"o", "n", "e">> }

\* lines = [l.strip() for l in text.split('\n') if l.strip()]
RECURSIVE NonEmptyStripped(_)
NonEmptyStripped(ls) ==
    IF ls = <<>> THEN <<>>
    ELSE IF Strip(Head(ls)) = <<>> THEN NonEmptyStripped(Tail(ls))
    ELSE <<Strip(Head(ls))>> \o NonEmptyStripped(Tail(ls))

\* The end of the run of characters of chars that starts at position p of
\* s: the last position of the run, p - 1 when s[p] is not in chars.
RunEnd(s, p, chars) ==
    LET stops == {k \in p..Len(s) : s[k] \notin chars}
    IN  IF stops = {} THEN Len(s) ELSE SetMin(stops) - 1

\* The start of the run of characters of chars that ends at position p.
RunStart(s, p, chars) ==
    LET stops == {k \in 1..p : s[k] \notin chars}
    IN  IF stops = {} THEN 1 ELSE SetMax(stops) + 1

\* re.match(r'^[A-Z][a-z]+ [A-Z][a-z]+', line): a capital, lowercase
\* letters, one space, a capital, a lowercase letter, at the start of the
\* line; what follows is not looked at.
MatchesAuthor(line) ==
    /\ Len(line) >= 1
    /\ line[1] \in UpperLetters
    /\ LET e == RunEnd(line, 2, LowerLetters)
       IN  /\ e >= 2
           /\ Len(line) >= e + 3
           /\ line[e + 1] = " "
           /\ line[e + 2] \in UpperLetters
           /\ line[e + 3] \in LowerLetters

\* The dots of the domain that starts after the @ at position a which the
\* pattern's \.\w+ can stand on: inside the run of [\w\.-] after the @,
\* with a character of the run before them and a word character after.
DomainDots(line, a) ==
    LET e == RunEnd(line, a + 1, EmailChars)
    IN  {d \in (a + 2)..(e - 1) : line[d] = "." /\ line[d + 1] \in WordChars}

\* The @ signs of line at which [\w\.-]+@[\w\.-]+\.\w+ matches.
EmailAts(line) ==
    {a \in 2..Len(line) :
        /\ line[a] = "@"
        /\ line[a - 1] \in EmailChars
        /\ DomainDots(line, a) # {}}

\* re.search(r'[\w\.-]+@[\w\.-]+\.\w+', line).group(): the leftmost match,
\* each repetition as long as it can be: from the start of the run before
\* the first such @ to the end of the word after the last dot that can
\* close the domain.  <<>> stands for no match.
SearchEmail(line) ==
    IF EmailAts(line) = {} THEN <<>>
    ELSE LET a == SetMin(EmailAts(line))
             d == SetMax(DomainDots(line, a))
         IN  SubSeq(line, RunStart(line, a - 1, EmailChars), RunEnd(line, d + 1, WordChars))

\* re.search(r'(Scene|Act|One)', line, re.IGNORECASE)
SearchSubtitle(line) == \E w \in SubtitleWords : Contains(Lower(line), w)

HasEmail(line) == SearchEmail(line) # <<>>

\* The positions lo..hi of ls, as far as ls goes: the slice ls[lo - 1:hi].
Slice(ls, lo, hi) == {k \in lo..hi : k <= Len(ls)}

\* for line in lines[1:6]: the positions of the lines that match.
AuthorHits(ls) == {k \in Slice(ls, 2, AuthorWindowEnd) : MatchesAuthor(ls[k])}

\* for line in lines[:50]: the positions of the lines with an email.
EmailHits(ls) == {k \in Slice(ls, 1, EmailWindowEnd) : HasEmail(ls[k])}

\* for line in lines[1:5]: the positions of the lines that match.
SubtitleHits(ls) == {k \in Slice(ls, 2, SubtitleWindowEnd) : SearchSubtitle(ls[k])}

\* if ...: field = line; break: the first of the lines at hits, '' when
\* there is none.
FirstLine(ls, hits) == IF hits = {} THEN <<>> ELSE ls[SetMin(hits)]

\* An extract_metadata that gives a line to one field only: a line taken as
\* the author is passed over by the subtitle search.
ExtractMetadataOneFieldPerLine(t) ==
    LET ls == NonEmptyStripped(SplitLines(t))
        author == FirstLine(ls, AuthorHits(ls))
    IN  [ title |-> IF ls # <<>> THEN ls[1] ELSE <<>>,
          subtitle |-> FirstLine(ls, {k \in SubtitleHits(ls) : ls[k] # author}),
          author |-> author,
          email |-> SearchEmail(FirstLine(ls, EmailHits(ls))),
          draft |-> DefaultDraft,
          copyright |-> DefaultCopyright ]

\* extract_metadata(text): the dict it returns.
ExtractMetadata(t) ==
    LET ls == NonEmptyStripped(SplitLines(t))
    IN  [ title |-> IF ls # <<>> THEN ls[1] ELSE <<>>,
          subtitle |-> FirstLine(ls, SubtitleHits(ls)),
          author |-> FirstLine(ls, AuthorHits(ls)),
          email |-> SearchEmail(FirstLine(ls, EmailHits(ls))),
          draft |-> DefaultDraft,
          copyright |-> DefaultCopyright ]

---------------------------------------------------------------------------
(* The inputs: the lines the texts are made of, and the texts.             *)

MaxLines == 3          \* the texts of Texts have up to this many pool lines
MaxContext == 2        \* lines before, and after, the stoplist word of a StopTexts text
MaxRegistryLines == 2  \* the texts of RegistryTexts have up to this many lines
MaxIdentifyCalls == 2  \* direct calls of identify_character_names on one instance
MaxReuseLines == 3     \* the texts of ReuseTexts have up to this many lines
MaxParses == 2         \* parse_play calls on one instance

\* Every sequence of up to n members of S.
SeqsUpTo(S, n) == UNION {[1..m -> S] : m \in 0..n}

\* Lines that between them take every branch of the two loops.
Pool ==
    { <<>>,
      <<"J", "O", "H", "N">>,
      <<" ", "M", "A", "R", "Y">>,
      <<"A", "C", "T", " ", "O", "N", "E">>,
      <<"H", "e", "l", "l", "o", " ", "t", "h", "e", "r", "e", ".">>,
      <<"(", "s", "o", "f", "t", "l", "y", ")", " ", "H", "i", " ", "J", "o", "h", "n", ".">>,
      <<"(", ")">>,
      <<"(", "J", "O", "H", "N", " ", "e", "x", "i", "t", "s", " ", "q", "u", "i", "e", "t", "l", "y", ")">>,
      <<"s", "o", "f", "t", "l", "y">>,
      <<"J", "O", "H", "N", " ", "s", "i", "t", "s", " ", "d", "o", "w", "n", ".">>,
      <<"B", "e", "a", "t", ".">> }

\* The manuscript of the spec's scenario A.
ScenarioA ==
    JoinLines(<< <<"A", "C", "T", " ", "O", "N", "E">>, <<>>, <<"J", "O", "H", "N">>, <<"H", "e", "l", "l", "o", " ", "t", "h", "e", "r", "e", ".">>, <<>>, <<"M", "A", "R", "Y">>,
                 <<"(", "s", "o", "f", "t", "l", "y", ")", " ", "H", "i", " ", "J", "o", "h", "n", ".">> >>)

\* A manuscript that takes the branches scenario A leaves out.
SamplePlay ==
    JoinLines(<< <<"A", "C", "T", " ", "1">>, <<"L", "i", "g", "h", "t", "s", " ", "u", "p", ".">>, <<"B", "e", "a", "t", ".">>, <<"T", "H", "E">>, <<"J", "O", "H", "N", " ", "s", "i", "t", "s", " ", "d", "o", "w", "n", ".">>, <<"A", " ", "l", "o", "n", "g", " ", "d", "a", "y", " ", "e", "n", "d", "s", ".">>,
                 <<"J", "O", "H", "N">>, <<"s", "o", "f", "t", "l", "y">>, <<"(", "p", "a", "u", "s", "e", ")">>, <<>>, <<"H", "e", "l", "l", "o", " ", "t", "h", "e", "r", "e", ".">>, <<>>,
                 <<"J", "O", "H", "N", " ", "s", "i", "t", "s", " ", "d", "o", "w", "n", ".">>, <<"J", "O", "H", "N">>, <<"H", "i", ".">>, <<"J", "O", "H", "N">>, <<"B", "y", "e", ".">>, <<"S", "c", "e", "n", "e", " ", "t", "w", "o">> >>)

\* The lines put around a stoplist word.
ContextPool == { <<>>, <<"J", "O", "H", "N">>, <<"H", "e", "l", "l", "o", " ", "t", "h", "e", "r", "e", ".">> }

\* A stoplist word on a line of its own, with up to MaxContext lines before
\* it and after it.
StopTexts ==
    {JoinLines(pre \o <<w>> \o post) :
        pre \in SeqsUpTo(ContextPool, MaxContext),
        w \in Stoplist,
        post \in SeqsUpTo(ContextPool, MaxContext)}

\* The texts parse_play is called with.
Texts == {JoinLines(ls) : ls \in SeqsUpTo(Pool, MaxLines)} \cup {ScenarioA, SamplePlay} \cup StopTexts

\* Lines at the edges of the name test: the pattern's length and character
\* classes, the word count, the stoplist.
RegistryPool ==
    { <<>>,
      <<"J", "O", "H", "N">>,
      <<"J">>,
      <<"J", "O">>,
      <<"J", "o", "h", "n">>,
      <<"j", "O", "H", "N">>,
      <<"O", "'", "N", "E", "I", "L", "-", "S", "M", "I", "T", "H">>,
      <<"J", "O", "H", "N", "\t", "S", "M", "I", "T", "H">>,
      <<"J", "O", "H", "N", " ", "2">>,
      <<"-", "J", "O", "H", "N">>,
      <<" ", " ", "M", "A", "R", "Y", " ", "A", "N", "N", " ", " ">>,
      <<"A", " ", "B", " ", "C", " ", "D">>,
      <<"A", " ", "B", " ", "C", " ", "D", " ", "E">>,
      <<"A", "B", "C", "D", "E", "F", "G", "H", "I", "J", "K", "L", "M", "N", "O", "P", "Q", "R", "S", "T", "U", "V", "W", "X", "Y", "Z", "A", "B", "C", "D", "E">>,
      <<"A", "B", "C", "D", "E", "F", "G", "H", "I", "J", "K", "L", "M", "N", "O", "P", "Q", "R", "S", "T", "U", "V", "W", "X", "Y", "Z", "A", "B", "C", "D", "E", "F">>,
      <<"L", "I", "G", "H", "T", "S", " ", " ", "U", "P">>,
      <<"S", "C", "E", "N", "E", " ", "O", "N", "E">> } \cup Stoplist

RegistryTexts == {JoinLines(ls) : ls \in SeqsUpTo(RegistryPool, MaxRegistryLines)}

\* Lines for an instance that parses more than once: a name of one text that
\* is part of a line of another.
ReusePool == { <<>>, <<"J", "O">>, <<"J", "O", "H", "N">>, <<"J", "O", " ", "s", "i", "t", "s", ".">>, <<"H", "e", "l", "l", "o", " ", "t", "h", "e", "r", "e", ".">> }

ReuseTexts ==
    {JoinLines(ls) : ls \in SeqsUpTo(ReusePool, MaxReuseLines)} \cup {ScenarioA, SamplePlay}

---------------------------------------------------------------------------
(* The state machine.                                                      *)

\* PlayFormatter(): __init__ leaves an empty registry.  No call is under way.
Fresh ==
    /\ character_names = {}
    /\ lines = <<>>
    /\ elements = <<>>
    /\ start_idx = 0
    /\ i = 0
    /\ pc = "idle"
    /\ dropped = {}
    /\ calls = 0
    /\ metadata = <<>>
    /\ rendered = <<>>

Init == Fresh /\ text \in Texts
InitRegistry == Fresh /\ text \in RegistryTexts
InitReuse == Fresh /\ text \in ReuseTexts

\* The state of the walk, as the step operators take it.
Here == [i |-> i, elements |-> elements, dropped |-> dropped, pc |-> pc]

\* A walk that takes the lines it drops into the registry.
TakeLearnsDropped(n) ==
    /\ i' = n.i
    /\ elements' = n.elements
    /\ dropped' = n.dropped
    /\ pc' = n.pc
    /\ character_names' = character_names \cup {Strip(lines[k + 1]) : k \in n.dropped}
    /\ UNCHANGED <<text, lines, start_idx, calls, metadata, rendered>>

\* The walk moves to n.
Take(n) ==
    /\ i' = n.i
    /\ elements' = n.elements
    /\ dropped' = n.dropped
    /\ pc' = n.pc
    /\ UNCHANGED <<character_names, text, lines, start_idx, calls, metadata, rendered>>

\* parse_play(t) up to the first loop test: the split, the registry, the
\* start scan.
Begin(t) ==
    /\ lines' = SplitLines(t)
    /\ character_names' = IdentifyCharacterNames(character_names, t)
    /\ start_idx' = StartIdx(lines', character_names')
    /\ i' = start_idx'
    /\ elements' = <<>>
    /\ dropped' = {}
    /\ pc' = "outer"
    /\ calls' = calls + 1
    /\ UNCHANGED <<metadata, rendered>>

\* The first parse_play call on the instance.
ParsePlay ==
    /\ pc = "idle"
    /\ Begin(text)
    /\ UNCHANGED text

\* A further parse_play call on the same instance, with any text.
ParseAgain ==
    /\ pc = "returned"
    /\ calls < MaxParses
    /\ \E t \in ReuseTexts : text' = t /\ Begin(t)

\* A direct call of identify_character_names(text).
Identify ==
    /\ pc = "idle"
    /\ calls < MaxIdentifyCalls
    /\ character_names' = IdentifyCharacterNames(character_names, text)
    /\ calls' = calls + 1
    /\ UNCHANGED <<text, lines, elements, start_idx, i, pc, dropped, metadata, rendered>>

\* The outer loop is at a line on which it takes the branch rule.
AtOuter(rule) ==
    /\ pc = "outer"
    /\ i < Len(lines)
    /\ OuterRule(Strip(lines[i + 1]), character_names) = rule

\* The speech loop is at a line on which it takes the branch rule.
AtSpeech(rule) ==
    /\ pc = "speech"
    /\ i < Len(lines)
    /\ SpeechRule(lines, i, character_names) = rule

(* The iterations of the outer loop, one action for each branch.           *)

\* a blank line is skipped
OuterBlank ==
    /\ AtOuter("blank")
    /\ Take(OuterStep(lines, character_names, Here))

\* a heading line
OuterSceneHeading ==
    /\ AtOuter("scene_heading")
    /\ Take(OuterStep(lines, character_names, Here))

\* a line with LIGHTS UP in it
OuterLightsUp ==
    /\ AtOuter("lights_up")
    /\ Take(OuterStep(lines, character_names, Here))

\* a standalone beat
OuterBeat ==
    /\ AtOuter("beat")
    /\ Take(OuterStep(lines, character_names, Here))

\* a registry member opens a speech
OuterCharacter ==
    /\ AtOuter("character")
    /\ Take(OuterStep(lines, character_names, Here))

\* an is_action_line line
OuterActionLine ==
    /\ AtOuter("action_line")
    /\ Take(OuterStep(lines, character_names, Here))

\* the default: a longer line not in upper case
OuterDefaultAction ==
    /\ AtOuter("default_action")
    /\ Take(OuterStep(lines, character_names, Here))

\* no branch emits: the line is passed over
OuterDrop ==
    /\ AtOuter("drop")
    /\ Take(OuterStep(lines, character_names, Here))

(* The iterations of the speech loop, one action for each branch.          *)

\* a blank line before a cue or an action line ends the speech
SpeechBlankBreak ==
    /\ AtSpeech("blank_break")
    /\ Take(SpeechStep(lines, character_names, Here))

\* any other blank line is skipped
SpeechBlankContinue ==
    /\ AtSpeech("blank_continue")
    /\ Take(SpeechStep(lines, character_names, Here))

\* a registry member ends the speech, unconsumed
SpeechCueBreak ==
    /\ AtSpeech("cue_break")
    /\ Take(SpeechStep(lines, character_names, Here))

\* an ACT or SCENE line ends the speech, unconsumed
SpeechHeadingBreak ==
    /\ AtSpeech("heading_break")
    /\ Take(SpeechStep(lines, character_names, Here))

\* a parenthetical with text after it
SpeechParenDialogue ==
    /\ AtSpeech("paren_dialogue")
    /\ Take(SpeechStep(lines, character_names, Here))

\* a parenthetical that ends the line
SpeechParenDirection ==
    /\ AtSpeech("paren_direction")
    /\ Take(SpeechStep(lines, character_names, Here))

\* a stage direction with no space in its first 15 characters
SpeechWordDirection ==
    /\ AtSpeech("word_direction")
    /\ Take(SpeechStep(lines, character_names, Here))

\* anything else is dialogue
SpeechDialogue ==
    /\ AtSpeech("dialogue")
    /\ Take(SpeechStep(lines, character_names, Here))

\* The speech loop's test fails: the outer loop goes on.
SpeechEnd ==
    /\ pc = "speech"
    /\ i >= Len(lines)
    /\ Take(WalkStep(lines, character_names, Here))

\* The outer loop's test fails: parse_play returns elements.
Return ==
    /\ pc = "outer"
    /\ i >= Len(lines)
    /\ Take(WalkStep(lines, character_names, Here))

WalkNext ==
    \/ OuterBlank
    \/ OuterSceneHeading
    \/ OuterLightsUp
    \/ OuterBeat
    \/ OuterCharacter
    \/ OuterActionLine
    \/ OuterDefaultAction
    \/ OuterDrop
    \/ SpeechBlankBreak
    \/ SpeechBlankContinue
    \/ SpeechCueBreak
    \/ SpeechHeadingBreak
    \/ SpeechParenDialogue
    \/ SpeechParenDirection
    \/ SpeechWordDirection
    \/ SpeechDialogue
    \/ SpeechEnd
    \/ Return

Next == ParsePlay \/ WalkNext
NextRegistry == Identify
NextReuse == ParsePlay \/ ParseAgain \/ WalkNext

\* One parse_play call on a fresh instance, as main() makes it.
Spec == Init /\ [][Next]_vars
\* Direct calls of identify_character_names on one instance.
SpecRegistry == InitRegistry /\ [][NextRegistry]_vars
\* Several parse_play calls on one instance.
SpecReuse == InitReuse /\ [][NextReuse]_vars

---------------------------------------------------------------------------
(* main(): parse_play, then create_formatted_docx on what it returned,     *)
(* over manuscripts that put one line at the edge of a rule in a context.  *)

MaxBefore == 3         \* the texts of LineTexts have up to this many lines before the line

\* Lines at the edges of the rules of the two loops: the heading patterns,
\* LIGHTS UP, the beat list, the parenthetical branch, the stage direction
\* test and its 15-character window.
EdgeLines ==
    { <<"I", "N", "T", ".", " ", "H", "O", "U", "S", "E">>,
      <<"E", "X", "T", ".", " ", "P", "A", "R", "K">>,
      <<"S", "c", "e", "n", "e", " ", "t", "w", "o">>,
      <<"a", "c", "t", " ", "2">>,
      <<"A", "C", "T", " ", "O", "N", "E">>,
      <<"L", "I", "G", "H", "T", "S", " ", "U", "P", " ", "N", "O", "W">>,
      <<"L", "i", "g", "h", "t", "s", " ", "u", "p", ".">>,
      <<"T", "H", "E">>,
      <<"P", "r", "o", "l", "o", "g", "u", "e">>,
      <<"J", "O", "H", "N", " ", "s", "i", "t", "s", " ", "d", "o", "w", "n", ".">>,
      <<"a", " ", "b", " ", "c", " ", "d", " ", "e", " ", "f", " ", "g", " ", "h", " ", "i", " ", "j", " ", "k">>,
      <<"b", "e", "a", "t">>,
      <<"B", "e", "a", "t">>,
      <<"B", "E", "A", "T">>,
      <<"b", "e", "a", "t", ".">>,
      <<"B", "e", "a", "t", ".">>,
      <<"B", "E", "A", "T", ".">>,
      <<"b", "E", "a", "T">>,
      <<"(", "s", "o", "f", "t", "l", "y", ")", " ", "H", "i", " ", "J", "o", "h", "n", ".">>,
      <<"(", "p", "a", "u", "s", "e", ")">>,
      <<"(", " ", "a", " ", ")">>,
      <<"(", "(", "a", "s", "i", "d", "e", ")">>,
      <<"(", "a", "(", ")">>,
      <<"(", ")">>,
      <<"(", "a", ")", "(", "b", ")">>,
      <<"(", "o", "p", "e", "n">>,
      <<"(", "e", "x", "i", "t", "s">>,
      <<"s", "o", "f", "t", "l", "y">>,
      <<"s", "o", "f", "t", "l", "y", " ", "s", "p", "o", "k", "e", "n", ".">>,
      <<"s", "o", "f", "t", "l", "y", "\t", "n", "o", "w">>,
      <<"E", "x", "i", "t", "s", ".">>,
      <<"e", "n", "t", "e", "r", "s", "-", "s", "t", "a", "g", "e", "-", "l", "e", "f", "t", " ", "a", "n", "d", " ", "b", "o", "w", "s">>,
      <<"w", "h", "i", "s", "p", "e", "r", "i", "n", "g", "-", "s", "o", "f", "t", "l", "y", " ", "n", "o", "w">> }

\* The lines before the line.
BeforePool == { <<>>, <<"J", "O", "H", "N">>, <<"H", "e", "l", "l", "o", " ", "t", "h", "e", "r", "e", ".">> }

\* The lines after the line.
Afters == { <<>>, << <<"H", "e", "l", "l", "o", " ", "t", "h", "e", "r", "e", ".">> >>, << <<>>, <<"J", "O", "H", "N">>, <<"H", "i", ".">> >> }

LineTexts ==
    {JoinLines(pre \o <<line>> \o post) :
        pre \in SeqsUpTo(BeforePool, MaxBefore),
        line \in EdgeLines,
        post \in Afters}

InitLines == Fresh /\ text \in LineTexts

\* create_formatted_docx(elements, metadata, output_path) on the elements
\* parse_play returned: the paragraphs of createPlayContent.
CreateFormattedDocx ==
    /\ pc = "returned"
    /\ rendered' = CreatePlayContent(Visible(elements))
    /\ pc' = "written"
    /\ UNCHANGED <<character_names, text, lines, elements, start_idx, i, dropped, calls, metadata>>

NextLines == ParsePlay \/ WalkNext \/ CreateFormattedDocx

\* One manuscript parsed and written out, as main() does it.
SpecLines == InitLines /\ [][NextLines]_vars

---------------------------------------------------------------------------
(* extract_metadata(text) on a fresh instance, over front matters that     *)
(* put two lines at every distance from the title.                         *)

MaxBlanks == 1         \* blank lines after the title of a MetaTexts text
MaxFillers == 50       \* filler lines between the title and the two lines

\* Every sequence of n lines equal to line.
Repeat(line, n) == [k \in 1..n |-> line]

TitlePool == { <<"M", "Y", " ", "P", "L", "A", "Y">>, <<"S", "t", "o", "n", "e", " ", "A", "g", "e", " ", "<", "m", "e", "@", "x", ".", "o", "r", "g", ">">> }

\* Lines that match one search, several, or none.
MetaPool ==
    { <<"J", "a", "n", "e", " ", "S", "m", "i", "t", "h">>,
      <<"j", "a", "n", "e", "@", "e", "x", "a", "m", "p", "l", "e", ".", "c", "o", "m">>,
      <<"S", "c", "e", "n", "e", " ", "O", "n", "e">>,
      <<"A", " ", "C", "h", "a", "r", "a", "c", "t", "e", "r", " ", "S", "t", "u", "d", "y">>,
      <<"M", "a", "i", "l", " ", "j", "a", "n", "e", ".", "d", "o", "e", "@", "m", "a", "i", "l", ".", "e", "x", "a", "m", "p", "l", "e", ".", "o", "r", "g", " ", "n", "o", "w">>,
      <<"a", "@", "b", " ", ".", "c">>,
      <<"x", "@", "y", ".", "c", "-", "d">>,
      <<"t", "h", "e", " ", "e", "n", "d">> }

\* A line no search matches.
Filler == <<"b", "y">>

\* The numbers of filler lines: those that keep the two lines near the
\* title, and those that put them around the fiftieth line.
FillerCounts == {f \in 0..MaxFillers : f <= 5 \/ f >= 46}

\* The front matter of the spec's scenario E.
ScenarioE ==
    JoinLines(<< <<"M", "Y", " ", "P", "L", "A", "Y">>, <<"J", "a", "n", "e", " ", "S", "m", "i", "t", "h">>, <<"j", "a", "n", "e", "@", "e", "x", "a", "m", "p", "l", "e", ".", "c", "o", "m">>, <<"S", "c", "e", "n", "e", " ", "O", "n", "e">>,
                 <<"J", "O", "H", "N">>, <<"H", "e", "l", "l", "o", " ", "t", "h", "e", "r", "e", ".">> >>)

MetaTexts ==
    {JoinLines(<<title>> \o Repeat(<<>>, b) \o Repeat(Filler, f) \o <<x, y>>) :
        title \in TitlePool, b \in 0..MaxBlanks, f \in FillerCounts,
        x \in MetaPool, y \in MetaPool}
    \cup {ScenarioE}

InitMetadata == Fresh /\ text \in MetaTexts

\* metadata = formatter.extract_metadata(text)
ExtractMetadataCall ==
    /\ pc = "idle"
    /\ metadata = <<>>
    /\ metadata' = <<ExtractMetadata(text)>>
    /\ UNCHANGED <<character_names, text, lines, elements, start_idx, i, pc, dropped, calls, rendered>>

NextMetadata == ExtractMetadataCall

\* One extract_metadata call on a fresh instance.
SpecMetadata == InitMetadata /\ [][NextMetadata]_vars

---------------------------------------------------------------------------
(* parse_play run to its end.  A sequential program that has not returned  *)
(* takes its next step: either the call has returned for good, or steps    *)
(* of it keep occurring.  A step is possible exactly until the return, so  *)
(* this is weak fairness of Next, written without its enabling condition.  *)

\* One parse_play call that is never left half-way.
SpecRun ==
    /\ InitLines
    /\ [][Next]_vars
    /\ (<>[](pc = "returned") \/ []<><<Next>>_vars)


\* formatter.extract_metadata(text) on an instance between its calls: before
\* parse_play, as main() has it, or after parse_play has returned.
ExtractMetadataBetweenCalls ==
    /\ pc \in {"idle", "returned"}
    /\ metadata = <<>>
    /\ metadata' = <<ExtractMetadata(text)>>
    /\ UNCHANGED <<character_names, text, lines, elements, start_idx, i, pc, dropped, calls, rendered>>

NextCalls == ParsePlay \/ WalkNext \/ ExtractMetadataBetweenCalls

\* One instance with one parse_play call and one extract_metadata call, in
\* either order.
SpecCalls == InitLines /\ [][NextCalls]_vars
---------------------------------------------------------------------------
(* The claims.                                                             *)

\* The registry identify_character_names builds from the text on a fresh
\* instance.
FreshRegistry == IdentifyCharacterNames({}, text)

\* The stripped line of the text with the (0-based) index idx.
LineAt(idx) == Strip(lines[idx + 1])

\* The positions of the elements made from the line idx.
ElementsOf(idx) == {k \in 1..Len(elements) : elements[k].line = idx}

\* C1: every element of type character that parse_play emits on a fresh
\* instance has a text that is a member of the registry
\* identify_character_names builds from the same text.
C1_CharacterInRegistry ==
    \A k \in 1..Len(elements) :
        elements[k].type = "character" => elements[k].text \in FreshRegistry

\* C1 witness: a parse has returned a list with a character element in it.
C1_Witness ==
    /\ pc = "returned"
    /\ \E k \in 1..Len(elements) : elements[k].type = "character"

\* C2: the element list keeps the input order: of two elements, the earlier
\* one comes from a line whose index is less than or equal to that of the
\* later one's line, and each element's text is made from the line recorded.
C2_InputOrder ==
    /\ \A a, b \in 1..Len(elements) :
           a < b => elements[a].line <= elements[b].line
    /\ \A k \in 1..Len(elements) :
           /\ elements[k].line \in start_idx..(Len(lines) - 1)
           /\ elements[k].text \in
                  { LineAt(elements[k].line),
                    Upper(LineAt(elements[k].line)),
                    StripChars(LineAt(elements[k].line), {"(", ")"}),
                    BeatText }

\* C2 witness: a returned list in which elements of the outer loop and of
\* the speech loop alternate.
C2_Witness ==
    /\ pc = "returned"
    /\ \E a, b, c \in 1..Len(elements) :
           /\ a < b /\ b < c
           /\ elements[a].type = "dialogue"
           /\ elements[b].type = "action"
           /\ elements[c].type = "character"

\* C3: every element parse_play emits has a non-empty text.
C3_TextNeverEmpty ==
    \A k \in 1..Len(elements) : elements[k].text # <<>>

\* The characters the claim C4 allows in a name as it stands: letters, the
\* space, the hyphen and the apostrophe.
C4_ClaimedChars == UpperLetters \cup {" ", "-", "'"}

\* The shape of a name whose characters are all of chars.
C4_Shape(n, chars) ==
    /\ Len(n) >= 2
    /\ Len(n) <= 31
    /\ n[1] \in UpperLetters
    /\ \A k \in 1..Len(n) : n[k] \in chars
    /\ WordCount(n) <= 4
    /\ n \notin Stoplist

\* C4 as it stands: every name of the registry starts with an uppercase
\* letter, consists only of uppercase letters, spaces, hyphens and
\* apostrophes, has 2 to 31 characters and at most 4 words, and is no
\* stoplist word.
C4_NameShapeSpacesOnly ==
    \A n \in character_names : C4_Shape(n, C4_ClaimedChars)

\* C4 amended: every name of the registry starts with an uppercase letter,
\* consists only of uppercase letters, whitespace characters (the space, and
\* the tab and the others the pattern's \s admits), hyphens and apostrophes,
\* has 2 to 31 characters and at most 4 words, and is no stoplist word.
C4_NameShape ==
    \A n \in character_names :
        C4_Shape(n, UpperLetters \cup {" ", "\t", "\r", "\f", "-", "'"})

\* C4 witness: identify_character_names has run and the registry holds a
\* name of several words and a name with a tab in it.
C4_Witness ==
    /\ calls >= 1
    /\ \E n \in character_names : WordCount(n) = 4
    /\ \E n \in character_names : \E k \in 1..Len(n) : n[k] = "\t"

\* The stripped line fails the rules 1 to 6 of the outer loop: the only lines
\* rule 7 passes over.
C5_FailsRules1To6(line) ==
    /\ ~MatchPrefixIgnoreCase(line, HeadingPrefixes)
    /\ ~Contains(Upper(line), LIGHTS_UP)
    /\ line \notin BeatForms
    /\ line \notin character_names
    /\ ~IsActionLine(line, character_names)
    /\ IsUpper(line) \/ Len(line) <= 5

\* C5: parse_play raises on no text: while it walks, i stays within
\* 0..len(lines), so every read lines[i] behind a loop test is in range, and
\* it returns.  When it has returned, every non-blank line at or after
\* start_idx has made exactly one element, or has made none and was passed
\* over by the outer loop because it fails the rules 1 to 6.
C5_EveryLineOnceOrDropped ==
    /\ pc \in {"outer", "speech", "returned"} => i \in 0..Len(lines)
    /\ pc = "returned" =>
           \A idx \in start_idx..(Len(lines) - 1) :
               LineAt(idx) # <<>> =>
                   \/ Cardinality(ElementsOf(idx)) = 1 /\ idx \notin dropped
                   \/ /\ ElementsOf(idx) = {}
                      /\ idx \in dropped
                      /\ C5_FailsRules1To6(LineAt(idx))

\* C5 witness: a returned parse in which a line of a speech after a blank
\* line made an element and a line outside was dropped.
C5_Witness ==
    /\ pc = "returned"
    /\ dropped # {}
    /\ \E k \in 1..Len(elements) :
           /\ elements[k].type = "dialogue"
           /\ elements[k].line >= 1
           /\ LineAt(elements[k].line - 1) = <<>>

\* C6: a parse on an instance that has parsed before returns the list a
\* fresh instance returns for the same text.
C6_ParsesIndependent ==
    pc = "returned" => Visible(elements) = ParsePlayResult({}, text)

\* The list scenario A is to give.
ScenarioAElements ==
    << [type |-> "scene_heading", text |-> <<"A", "C", "T", " ", "O", "N", "E">>],
       [type |-> "character", text |-> <<"J", "O", "H", "N">>],
       [type |-> "dialogue", text |-> <<"H", "e", "l", "l", "o", " ", "t", "h", "e", "r", "e", ".">>],
       [type |-> "character", text |-> <<"M", "A", "R", "Y">>],
       [type |-> "dialogue", text |-> <<"(", "s", "o", "f", "t", "l", "y", ")", " ", "H", "i", " ", "J", "o", "h", "n", ".">>] >>

\* C7: parsing the text of scenario A returns exactly the heading ACT ONE,
\* the cue JOHN, the dialogue "Hello there.", the cue MARY and the dialogue
\* "(softly) Hi John.".
C7_ScenarioA ==
    (text = ScenarioA /\ pc = "returned") => Visible(elements) = ScenarioAElements

\* C7 witness: the parse of scenario A has returned.
C7_Witness == text = ScenarioA /\ pc = "returned" /\ Len(elements) = 5

\* The line is wholly wrapped in parentheses.
WhollyParenthesised(line) == StartsWith(line, <<"(">>) /\ EndsWith(line, <<")">>)

\* The outer loop is at a line wholly wrapped in parentheses.
C8_AtParenthesisedOutside ==
    /\ pc = "outer"
    /\ i < Len(lines)
    /\ WhollyParenthesised(LineAt(i))

C9_StoplistNeverCharacter ==
    /\ character_names \cap Stoplist = {}
    /\ \A k \in 1..Len(elements) :
           LineAt(elements[k].line) \in Stoplist => elements[k].type # "character"

\* C9 witness: a returned parse of a text in which a stoplist word follows a
\* cue and its speech after a blank line, and has made an element or none.
C9_Witness ==
    /\ pc = "returned"
    /\ \E idx \in 2..(Len(lines) - 1) :
           /\ LineAt(idx) \in Stoplist
           /\ LineAt(idx - 1) = <<>>
           /\ LineAt(idx - 2) \in character_names
           /\ idx >= start_idx

\* C10: running identify_character_names a second time on the same text
\* leaves the set of names the first run built.
C10_IdentifyIdempotent ==
    calls >= 2 => character_names = FreshRegistry

\* C10 witness: the second run on a text with names in it is over.
C10_Witness == calls = 2 /\ Cardinality(character_names) = 2

---------------------------------------------------------------------------
(* Rendering of stage directions.                                          *)

\* The paragraph written for element k.
RenderedOf(k) == rendered[k]

\* t has an opening parenthesis at its start and a closing one at its end.
Enclosed(t) == Len(t) >= 2 /\ t[1] = "(" /\ t[Len(t)] = ")"

\* C11: for every stage direction the parser emits, the renderer adds the
\* enclosing parentheses exactly when the stored text lacks them, and the
\* paragraph is the direction inside one pair of enclosing parentheses.
C11_DirectionRenderedEnclosed ==
    pc = "written" =>
        \A k \in 1..Len(elements) :
            elements[k].type = "stage_direction" =>
                LET t == elements[k].text
                    added == RenderedOf(k) # t
                IN  /\ added <=> ~Enclosed(t)
                    /\ Enclosed(RenderedOf(k))
                    /\ RenderedOf(k) = (IF Enclosed(t) THEN t ELSE <<"(">> \o t \o <<")">>)

---------------------------------------------------------------------------
(* Metadata.                                                               *)

\* The lines of the document, stripped, blank ones kept: line n of the
\* document is DocumentLines[n].
DocumentLines ==
    LET ls == SplitLines(text)
    IN  [k \in 1..Len(ls) |-> Strip(ls[k])]

\* The non-empty lines of the document, stripped: the n-th of them is
\* NonEmptyLines[n].
NonEmptyLines == NonEmptyStripped(SplitLines(text))

\* v comes from the first of the numbered lines ls, among those numbered
\* lo to hi, that is in matching, and is empty when none of them is; what
\* the line with number k gives is value[k].
C12_FromFirstMatch(v, ls, lo, hi, matching, value) ==
    LET hits == {k \in lo..hi : k <= Len(ls) /\ ls[k] \in matching}
    IN  \/ hits = {} /\ v = <<>>
        \/ \E k \in hits : (\A j \in hits : k <= j) /\ v = value[k]

\* Each field is filled from its own first match over the numbered lines ls.
C12_Fields(m, ls) ==
    LET all == {ls[k] : k \in 1..Len(ls)}
        whole == [k \in 1..Len(ls) |-> ls[k]]
        found == [k \in 1..Len(ls) |-> SearchEmail(ls[k])]
    IN  /\ C12_FromFirstMatch(m.author, ls, 2, 6, {l \in all : MatchesAuthor(l)}, whole)
        /\ C12_FromFirstMatch(m.email, ls, 1, 50, {l \in all : HasEmail(l)}, found)
        /\ C12_FromFirstMatch(m.subtitle, ls, 2, 5, {l \in all : SearchSubtitle(l)}, whole)

C12_Title(m, ls) ==
    \/ ls = <<>> /\ m.title = <<>>
    \/ ls # <<>> /\ m.title = ls[1]

\* C12 as stated: the title is the first non-empty line of the document,
\* and author, email and subtitle each come from their own first match
\* within lines 2-6, 1-50 and 2-5 of the document.
C12_FieldsByDocumentLine ==
    metadata # <<>> => C12_Title(metadata[1], NonEmptyLines) /\ C12_Fields(metadata[1], DocumentLines)

\* C12: the title is the first non-empty line of the document, and author,
\* email and subtitle each come from their own first match within lines
\* 2-6, 1-50 and 2-5 of the document's non-empty lines, whatever the other
\* fields took; in scenario E the four fields are the first four lines.
C12_FieldsByNonEmptyLine ==
    metadata # <<>> =>
        /\ C12_Title(metadata[1], NonEmptyLines)
        /\ C12_Fields(metadata[1], NonEmptyLines)
        /\ text = ScenarioE =>
              /\ metadata[1].title = <<"M", "Y", " ", "P", "L", "A", "Y">>
              /\ metadata[1].author = <<"J", "a", "n", "e", " ", "S", "m", "i", "t", "h">>
              /\ metadata[1].email = <<"j", "a", "n", "e", "@", "e", "x", "a", "m", "p", "l", "e", ".", "c", "o", "m">>
              /\ metadata[1].subtitle = <<"S", "c", "e", "n", "e", " ", "O", "n", "e">>

\* One line has given both the author and the subtitle, and the email came
\* from the title line.
C12_Witness ==
    /\ metadata # <<>>
    /\ metadata[1].author = <<"S", "c", "e", "n", "e", " ", "O", "n", "e">>
    /\ metadata[1].subtitle = <<"S", "c", "e", "n", "e", " ", "O", "n", "e">>
    /\ metadata[1].email = <<"m", "e", "@", "x", ".", "o", "r", "g">>

---------------------------------------------------------------------------
(* The start of the walk.                                                  *)

\* Line idx is a trigger line as the specification defines it: a member of
\* the registry, or a line with a heading prefix (ACT, SCENE, INT., EXT.).
IsTriggerLine(idx) ==
    \/ LineAt(idx) \in character_names
    \/ MatchPrefixIgnoreCase(LineAt(idx), HeadingPrefixes)

TriggerLines == {idx \in 0..(Len(lines) - 1) : IsTriggerLine(idx)}

\* The manuscript "Beat.\n".
BeatAlone == JoinLines(<< <<"B", "e", "a", "t", ".">>, <<>> >>)

\* C13: when the text has no trigger line the walk starts at index 0 and
\* never enters a speech: every non-blank line is emitted as an action or
\* dropped by the outer loop, and "Beat.\n" gives exactly [Action("Beat.")].
C13_NoTriggerOuterOnly ==
    (pc # "idle" /\ TriggerLines = {}) =>
        /\ start_idx = 0
        /\ pc # "speech"
        /\ \A k \in 1..Len(elements) : elements[k].type = "action"
        /\ pc = "returned" =>
              /\ \A idx \in 0..(Len(lines) - 1) :
                    IF Strip(LineAt(idx)) = <<>>
                    THEN ElementsOf(idx) = {} /\ idx \notin dropped
                    ELSE Cardinality(ElementsOf(idx)) = 1 <=> idx \notin dropped
              /\ text = BeatAlone =>
                    Visible(elements) = << [type |-> "action", text |-> <<"B", "e", "a", "t", ".">>] >>

\* "Beat.\n" has been parsed.
C13_Witness ==
    /\ pc = "returned"
    /\ text = BeatAlone
    /\ TriggerLines = {}
    /\ Len(elements) = 1

---------------------------------------------------------------------------
(* Headings inside a speech.                                               *)

\* The speech loop is at a line with a heading prefix.
C14_AtHeadingInSpeech ==
    /\ pc = "speech"
    /\ i < Len(lines)
    /\ MatchPrefixIgnoreCase(LineAt(i), HeadingPrefixes)

\* C14: inside a speech a line that starts with ACT, SCENE, INT. or EXT.
\* (in any case) ends the speech without being consumed, and no element of
\* type dialogue or stage_direction is ever made from such a line.
C14_HeadingEndsSpeech ==
    /\ C14_AtHeadingInSpeech => SpeechRule(lines, i, character_names) \in {"cue_break", "heading_break"}
    /\ \A k \in 1..Len(elements) :
          MatchPrefixIgnoreCase(LineAt(elements[k].line), HeadingPrefixes) =>
              /\ elements[k].type = "scene_heading"
              /\ elements[k].text = Upper(LineAt(elements[k].line))

---------------------------------------------------------------------------
(* Where the walk starts.                                                  *)

\* The lines that are a member of the registry or start with ACT or SCENE.
ActSceneTriggerLines ==
    {idx \in 0..(Len(lines) - 1) :
        \/ LineAt(idx) \in character_names
        \/ MatchPrefixIgnoreCase(LineAt(idx), StartPrefixes)}

\* The walk started one line before the first line of triggers (at 0 when
\* that is the first line): nothing before that line was emitted or
\* dropped, and once the call has returned every non-blank line from there
\* on was emitted or dropped.
C15_StartsBefore(triggers) ==
    (pc # "idle" /\ triggers # {}) =>
        LET t == SetMin(triggers)
            s == IF t - 1 > 0 THEN t - 1 ELSE 0
        IN  /\ start_idx = s
            /\ \A k \in 1..Len(elements) : elements[k].line >= s
            /\ \A idx \in dropped : idx >= s
            /\ pc \in {"returned", "written"} =>
                  \A idx \in s..(Len(lines) - 1) :
                      LineAt(idx) # <<>> => (ElementsOf(idx) # {} \/ idx \in dropped)

\* C15 as stated: the walk leaves the start scan at the first line t that is
\* a registry member or starts with ACT, SCENE, INT. or EXT., and starts
\* classifying at max(0, t - 1).
C15_StartAtFirstHeadingOrCue == C15_StartsBefore(TriggerLines)

\* C15: the walk leaves the start scan at the first line t that is a
\* registry member or starts with ACT or SCENE (in any case), and starts
\* classifying at max(0, t - 1): no line below t - 1 gives an element, and
\* line t - 1 and every line from t on is classified.
C15_StartAtFirstActSceneOrCue == C15_StartsBefore(ActSceneTriggerLines)

\* A walk that started at a heading's predecessor and left a line unread.
C15_Witness ==
    /\ pc = "returned"
    /\ start_idx = 1
    /\ LineAt(0) # <<>>
    /\ LineAt(2) = <<"S", "c", "e", "n", "e", " ", "t", "w", "o">>
    /\ ElementsOf(0) = {}
    /\ ElementsOf(1) # {}
    /\ ElementsOf(2) # {}

---------------------------------------------------------------------------
(* Blank lines inside a speech.                                            *)

\* The speech loop is at a blank line.
C16_AtBlankInSpeech == pc = "speech" /\ i < Len(lines) /\ LineAt(i) = <<>>

\* The speech loop is at the line that follows a run of blank lines: the
\* run did not end the speech.
C16_AfterBlankRun ==
    /\ pc = "speech"
    /\ i < Len(lines)
    /\ i >= 1
    /\ LineAt(i - 1) = <<>>
    /\ LineAt(i) # <<>>

\* The line idx ends a speech when it follows a run of blank lines.
C16_EndsSpeech(idx) ==
    LineAt(idx) \in character_names \/ IsActionLine(LineAt(idx), character_names)

\* The step at a blank line of a speech: it emits nothing, and it leaves the
\* speech exactly when the run ends here before a line that is a registry
\* member or an action line, with i on that line for the outer loop.
C16_BlankStep ==
    C16_AtBlankInSpeech =>
        /\ elements' = elements
        /\ i' = i + 1
        /\ pc' \in {"speech", "outer"}
        /\ pc' = "outer" <=>
              (i + 1 < Len(lines) /\ LineAt(i + 1) # <<>> /\ C16_EndsSpeech(i + 1))

\* The step makes speech content of the line i.
C16_TakenAsSpeech ==
    /\ pc' = "speech"
    /\ i' = i + 1
    /\ Len(elements') = Len(elements) + 1
    /\ elements'[Len(elements')].line = i
    /\ elements'[Len(elements')].type \in {"dialogue", "stage_direction"}

\* The step leaves the speech with the line i unread.
C16_LeftUnread == pc' = "outer" /\ i' = i /\ elements' = elements

\* C16 as stated: inside a speech a run of blank lines ends the speech
\* exactly when the next non-blank line is a registry member or an action
\* line, which the outer loop then takes; otherwise the speech goes on and
\* that line becomes speech content.  Blank lines give no element.
C16_BlankRunThenSpeechContent ==
    [][ /\ C16_BlankStep
        /\ C16_AfterBlankRun => C16_TakenAsSpeech ]_vars

\* C16: as above, but the line after a run that did not end the speech is
\* taken by the rules of the speech loop: a line that starts with ACT or
\* SCENE ends the speech unread, any other becomes speech content.
C16_BlankRunThenSpeechRules ==
    [][ /\ C16_BlankStep
        /\ C16_AfterBlankRun =>
              IF MatchPrefixIgnoreCase(LineAt(i), StartPrefixes)
              THEN C16_LeftUnread
              ELSE C16_TakenAsSpeech ]_vars

\* A speech that went on past a run of two blank lines.
C16_Witness ==
    /\ C16_AfterBlankRun
    /\ i >= 2
    /\ LineAt(i - 2) = <<>>
    /\ ~MatchPrefixIgnoreCase(LineAt(i), StartPrefixes)

---------------------------------------------------------------------------
(* The order of the rules outside a speech.                                *)

\* The line L satisfies the condition of rule n of the outer loop: 1 scene
\* heading, 2 LIGHTS UP, 3 beat, 4 registry member, 5 is_action_line, 6 a
\* line longer than 5 characters that is not in upper case.
C17_Satisfies(n, L) ==
    CASE n = 1 -> MatchPrefixIgnoreCase(L, HeadingPrefixes)
      [] n = 2 -> Contains(Upper(L), <<"L", "I", "G", "H", "T", "S", " ", "U", "P">>)
      [] n = 3 -> L \in BeatForms
      [] n = 4 -> L \in character_names
      [] n = 5 -> IsActionLine(L, character_names)
      [] n = 6 -> ~IsUpper(L) /\ Len(L) > 5

\* The element rule n makes of the line L.
C17_ElementOf(n, L) ==
    CASE n = 1 -> [type |-> "scene_heading", text |-> Upper(L)]
      [] n = 3 -> [type |-> "action", text |-> <<"B", "e", "a", "t", ".">>]
      [] n = 4 -> [type |-> "character", text |-> L]
      [] OTHER -> [type |-> "action", text |-> L]

C17_RulesOf(L) == {n \in 1..6 : C17_Satisfies(n, L)}

\* C17: outside a speech the first rule that matches wins, in the order
\* scene heading, LIGHTS UP, beat, registry member, is_action_line, long
\* line not in upper case, drop: every element the outer loop makes is the
\* element of the earliest rule its line satisfies, and a line is dropped
\* only when it satisfies none.
C17_FirstRuleWins ==
    /\ \A k \in 1..Len(elements) :
          elements[k].type \in {"scene_heading", "action", "character"} =>
              LET L == LineAt(elements[k].line)
              IN  /\ C17_RulesOf(L) # {}
                  /\ [type |-> elements[k].type, text |-> elements[k].text]
                        = C17_ElementOf(SetMin(C17_RulesOf(L)), L)
    /\ \A idx \in dropped : C17_RulesOf(LineAt(idx)) = {}

\* A registry member with LIGHTS UP in it was emitted as an action.
C17_Witness ==
    /\ pc = "returned"
    /\ \E k \in 1..Len(elements) :
          /\ elements[k].type = "action"
          /\ elements[k].text = <<"L", "I", "G", "H", "T", "S", " ", "U", "P", " ", "N", "O", "W">>
          /\ elements[k].text \in character_names
          /\ {2, 4} \subseteq C17_RulesOf(LineAt(elements[k].line))

---------------------------------------------------------------------------
(* The beat.                                                               *)

\* L is the word beat in any case, with or without a full stop.
C18_IsBeat(L) == Lower(L) \in { <<"b", "e", "a", "t">>, <<"b", "e", "a", "t", ".">> }

\* C18: outside a speech every line that is beat in any case, with or
\* without a trailing full stop, is emitted as the action "Beat.": it never
\* becomes a character and is never dropped.
C18_EveryBeatIsAction ==
    [][ (pc = "outer" /\ i < Len(lines) /\ C18_IsBeat(LineAt(i))) =>
            /\ elements' = Append(elements, [type |-> "action", text |-> <<"B", "e", "a", "t", ".">>, line |-> i])
            /\ dropped' = dropped
            /\ pc' = "outer" ]_vars

---------------------------------------------------------------------------
(* Parentheticals and stage directions inside a speech.                    *)

\* L starts with ( and has a ) after it.
C19_ClosedParenthetical(L) == StartsWith(L, <<"(">>) /\ Contains(L, <<")">>)

\* C19: inside a speech a line that starts with ( and has a later ) is
\* emitted as dialogue, the whole line, when a character follows the closing
\* parenthesis, and otherwise as a stage direction whose text is the line
\* without its enclosing parentheses, nothing else removed.
C19_ParentheticalSplit ==
    [][ (pc = "speech" /\ i < Len(lines) /\ C19_ClosedParenthetical(LineAt(i))) =>
            LET L == LineAt(i)
                follows == Find(L, <<")">>) < Len(L) - 1
            IN  /\ pc' = "speech"
                /\ i' = i + 1
                /\ elements' = Append(elements,
                      IF follows
                      THEN [type |-> "dialogue", text |-> L, line |-> i]
                      ELSE [type |-> "stage_direction", text |-> SubSeq(L, 2, Len(L) - 1),
                            line |-> i]) ]_vars

\* The speech loop is at a line it will consume that is no closed
\* parenthetical: not blank, no registry member, no ACT or SCENE line.
C20_AtPlainSpeechLine ==
    /\ pc = "speech"
    /\ i < Len(lines)
    /\ LineAt(i) # <<>>
    /\ LineAt(i) \notin character_names
    /\ ~MatchPrefixIgnoreCase(LineAt(i), StartPrefixes)
    /\ ~C19_ClosedParenthetical(LineAt(i))

\* L is a stage direction by the word test: is_stage_direction holds and the
\* first 15 characters have no space.
C20_IsWordDirection(L) ==
    IsStageDirection(L) /\ \A k \in 1..Len(L) : k <= 15 => L[k] # " "

\* The step emits L verbatim, as a stage direction exactly when the word
\* test holds and as dialogue otherwise.
C20_EmittedByWordTest ==
    LET L == LineAt(i)
    IN  /\ pc' = "speech"
        /\ i' = i + 1
        /\ elements' = Append(elements,
              [type |-> IF C20_IsWordDirection(L) THEN "stage_direction" ELSE "dialogue",
               text |-> L, line |-> i])

---------------------------------------------------------------------------
(* Termination.                                                            *)

\* What is left of the walk: the lines from i on, and within a line the
\* loops still to leave (the speech loop inside the outer loop).
C21_Left ==
    3 * (Len(lines) - i) + (CASE pc = "speech" -> 2 [] pc = "outer" -> 1 [] OTHER -> 0)

\* A step of the walk lessens what is left of it; an iteration of the outer
\* loop steps the line index forward; nothing is emitted once the lines are
\* used up.
C21_Step ==
    pc \in {"outer", "speech"} =>
        /\ C21_Left' < C21_Left
        /\ (pc = "outer" /\ i < Len(lines)) => i' > i
        /\ i >= Len(lines) => elements' = elements

\* C21: parse_play terminates on every input: every iteration of the outer
\* loop steps the line index forward, also on a line a speech left unread;
\* the call returns; until then the walk has a step to take, and every step
\* lessens what is left of it, which is never negative; no element comes
\* from beyond the last line or is added once the lines are used up.
C21_Terminates ==
    /\ <>(pc = "returned")
    /\ [](pc \in {"outer", "speech"} => WalkStep(lines, character_names, Here) # Here)
    /\ [](C21_Left >= 0)
    /\ [](\A k \in 1..Len(elements) : elements[k].line < Len(lines))
    /\ [][C21_Step]_vars

\* A walk that has returned after the outer loop took a line that a speech
\* had left unread.
C21_Witness ==
    /\ pc = "returned"
    /\ i = Len(lines)
    /\ \E k \in 2..Len(elements) :
          /\ elements[k].type = "scene_heading"
          /\ elements[k - 1].type \in {"dialogue", "character"}
          /\ elements[k].line = elements[k - 1].line + 1


---------------------------------------------------------------------------
(* Speech blocks.                                                          *)

\* The types the speech loop emits.
C22_SpeechTypes == {"dialogue", "stage_direction"}

\* The element k lies in a speech: a character element stands before it and
\* from there up to k there are speech elements only.
C22_InSpeech(k) ==
    \E j \in 1..(k - 1) :
        /\ elements[j].type = "character"
        /\ \A m \in (j + 1)..k : elements[m].type \in C22_SpeechTypes

\* C22: dialogue and stage direction elements occur only inside a speech
\* block: each one has a character element before it with nothing but
\* dialogue and stage directions in between, and none follows a scene
\* heading or an action unless a character element stands between the two.
C22_OnlyInsideSpeech ==
    /\ \A k \in 1..Len(elements) :
          elements[k].type \in C22_SpeechTypes => C22_InSpeech(k)
    /\ \A j, k \in 1..Len(elements) :
          (/\ j < k
           /\ elements[j].type \in {"scene_heading", "action"}
           /\ elements[k].type \in C22_SpeechTypes)
              => \E m \in (j + 1)..(k - 1) : elements[m].type = "character"
    /\ pc = "speech" =>
          /\ elements # <<>>
          /\ elements[Len(elements)].type \in C22_SpeechTypes \cup {"character"}

\* A returned list in which a speech with a line of dialogue comes after an
\* action or a scene heading and is followed by another one.
C22_Witness ==
    /\ pc = "returned"
    /\ \E j \in 1..Len(elements) : \E k \in (j + 2)..Len(elements) :
          /\ elements[j].type \in {"scene_heading", "action"}
          /\ elements[j + 1].type = "character"
          /\ \A m \in (j + 2)..k : elements[m].type \in C22_SpeechTypes
          /\ k < Len(elements)
          /\ elements[k + 1].type \in {"scene_heading", "action"}

---------------------------------------------------------------------------
(* The look past a blank line.                                             *)

\* The indices of the lines that are not blank, from the start index on.
C23_NonBlank == {n \in start_idx..(Len(lines) - 1) : Strip(lines[n + 1]) # <<>>}

\* The elements of the list els that came from the line n.
C23_From(els, n) == {k \in 1..Len(els) : els[k].line = n}

\* The speech loop stands on a blank line and looks at the line after it,
\* which is not blank.
C23_Peeking ==
    /\ pc = "speech"
    /\ i + 1 < Len(lines)
    /\ Strip(lines[i + 1]) = <<>>
    /\ Strip(lines[i + 2]) # <<>>

\* A step appends at most one element, from the line the walk stands on, and
\* leaves that line behind.  The look past a blank line appends nothing,
\* drops nothing and leaves the walk on the line it looked at, which has given
\* no element yet and gives exactly one by the time the call returns.
C23_Step ==
    /\ elements' # elements =>
          /\ Len(elements') = Len(elements) + 1
          /\ SubSeq(elements', 1, Len(elements)) = elements
          /\ elements'[Len(elements')].line = i
          /\ i' = i + 1
    /\ C23_Peeking =>
          /\ i' = i + 1
          /\ elements' = elements
          /\ dropped' = dropped
          /\ C23_From(elements, i + 1) = {}
          /\ Cardinality(C23_From(Walk(lines, character_names, Here').elements, i + 1)) = 1

\* The elements so far come from lines behind the walk, in the order of the
\* lines, one line each, and none from a blank line or a dropped one.
C23_OneLineEach ==
    /\ \A k \in 1..Len(elements) :
          /\ elements[k].line \in C23_NonBlank \ dropped
          /\ elements[k].line < i
          /\ k > 1 => elements[k - 1].line < elements[k].line
    /\ \A n \in C23_NonBlank : Cardinality(C23_From(elements, n)) <= 1

\* C23: the look past a blank line takes nothing away: no line gives two
\* elements, every line reaches an emitting rule at most once, the line
\* looked at after a run of blank lines is neither passed over nor emitted
\* twice, and there are never more elements than lines that are not blank
\* from the start index on.
C23_PeekNonDestructive ==
    /\ [](pc \in {"outer", "speech", "returned", "written"} => C23_OneLineEach)
    /\ [](pc \in {"outer", "speech", "returned", "written"} =>
             Len(elements) <= Cardinality(C23_NonBlank))
    /\ [][C23_Step]_vars

\* A returned list with an element from a line the speech loop looked at
\* past two blank lines and went on with, and one from a line at which it
\* stopped after a blank line.
C23_Witness ==
    /\ pc = "returned"
    /\ \E k \in 2..Len(elements) :
          /\ elements[k].type = "dialogue"
          /\ elements[k - 1].type \in {"character", "dialogue"}
          /\ elements[k].line = elements[k - 1].line + 3
    /\ \E k \in 2..Len(elements) :
          /\ elements[k].type \in {"character", "action"}
          /\ elements[k - 1].type \in C22_SpeechTypes
          /\ elements[k].line = elements[k - 1].line + 2

---------------------------------------------------------------------------
(* The registry during a call.                                             *)

\* A step of the line walk, and an extract_metadata call, leave the
\* registry as it is: the walk steps are the ones that evaluate
\* is_stage_direction and is_action_line.
C24_Step ==
    /\ pc \in {"outer", "speech", "returned"} => character_names' = character_names
    /\ metadata' # metadata => character_names' = character_names

\* C24: the registry is fixed once it is built: from the return of
\* identify_character_names at the start of parse_play on, the registry is
\* the set that call left, no step of the walk adds or removes a name, and
\* extract_metadata, is_stage_direction and is_action_line leave it as it is.
C24_RegistryFixed ==
    /\ [](pc \in {"outer", "speech", "returned"} =>
             character_names = IdentifyCharacterNames({}, text))
    /\ [][C24_Step]_vars

\* A call that has returned with names in the registry, with the metadata
\* extracted, after the walk took a cue and a line that is_action_line
\* accepts for a name of the registry in it.
C24_Witness ==
    /\ pc = "returned"
    /\ metadata # <<>>
    /\ character_names # {}
    /\ \E k \in 1..Len(elements) : elements[k].type = "character"
    /\ \E k \in 1..Len(elements) :
          /\ elements[k].type = "action"
          /\ IsActionLine(elements[k].text, character_names)
          /\ ~IsActionLine(elements[k].text, {})
=============================================================================
